---- MODULE Spec2Model ----
(***************************************************************************)
(* One invocation of the panos_security_rule module                        *)
(* (plugins/modules/panos_security_rule.py, main).  The module parameters  *)
(* and the remote rulebase are drawn at Init; each action is one step of   *)
(* main.  The connection helper (get_pandevice_parent, apply_state,        *)
(* apply_position, commit) lives in plugins/module_utils/panos.py and is   *)
(* modelled from its documented behaviour.                                 *)
(***************************************************************************)
EXTENDS Integers, Sequences, FiniteSets, TLC

VARIABLES
    pc,           \* position of main: a step of StepOrder, "done" or "failed"
    params,       \* module.params (and module.check_mode)
    supplied,     \* the parameters as the playbook supplied them
    deprecated,   \* module.deprecate was called
    remote,       \* the rulebase on the device: an ordered list of rules
    remote0,      \* the rulebase when the invocation started
    rules,        \* the list returned by SecurityRule.refreshall
    new_rule,     \* the SecurityRule built from rule_spec
    changed,      \* the local variable changed
    diff,         \* the local variable diff
    stateChanged, \* what helper.apply_state returned
    posChanged,   \* what helper.apply_position returned
    fetchErr,     \* text of the PanDeviceError raised by refreshall
    calls,        \* the steps that ran, in order
    result        \* what exit_json / fail_json reported

vars == <<pc, params, supplied, deprecated, remote, remote0, rules, new_rule, changed,
          diff, stateChanged, posChanged, fetchErr, calls, result>>

----------------------------------------------------------------------------
(* Bounds and value sets *)

MaxRules == 2

None == "None"

RuleNames == {"r1", "r2", "r3"}

RuleActions == {"allow", "deny"}

FetchErrors == {"timeout", "denied"}

NoRule == [name |-> None, action |-> None]

NoDiff == [before |-> NoRule, after |-> NoRule]

NoResult == [failed |-> FALSE, changed |-> FALSE, diff |-> NoDiff, msg |-> ""]

----------------------------------------------------------------------------
(* Lists of rules *)

Names(rs) == {rs[i].name : i \in 1..Len(rs)}

HasRule(rs, n) == n \in Names(rs)

IndexOf(rs, n) == CHOOSE i \in 1..Len(rs) : rs[i].name = n

Find(rs, n) == rs[IndexOf(rs, n)]

Without(rs, n) == SelectSeq(rs, LAMBDA r : r.name # n)

Replace(rs, r) == [i \in 1..Len(rs) |-> IF rs[i].name = r.name THEN r ELSE rs[i]]

InsertAt(rs, k, r) == SubSeq(rs, 1, k - 1) \o <<r>> \o SubSeq(rs, k, Len(rs))

\* rulebases the device can hold: rule names are unique within a rulebase
RuleBases ==
    {rs \in UNION {[1..n -> [name : RuleNames, action : RuleActions]] : n \in 0..MaxRules} :
        \A i, j \in 1..Len(rs) : i # j => rs[i].name # rs[j].name}

----------------------------------------------------------------------------
(* helper.apply_state(obj, listing, module): create, update, delete or     *)
(* leave alone, decided against the listing it is given.  In check mode    *)
(* it reports the change without sending it to the device.                 *)

ApplyStateChanged(state, obj, listing) ==
    IF state = "present"
    THEN \/ ~HasRule(listing, obj.name)
         \/ Find(listing, obj.name) # obj
    ELSE HasRule(listing, obj.name)

ApplyStateDiff(state, obj, listing) ==
    [before |-> IF HasRule(listing, obj.name) THEN Find(listing, obj.name) ELSE NoRule,
     after  |-> IF state = "present" THEN obj ELSE NoRule]

ApplyStateRemote(state, check_mode, obj, listing, rem) ==
    IF check_mode \/ ~ApplyStateChanged(state, obj, listing) THEN rem
    ELSE IF state = "absent" THEN Without(rem, obj.name)
    ELSE IF HasRule(rem, obj.name) THEN Replace(rem, obj)
    ELSE Append(rem, obj)

(* helper.apply_position(obj, location, existing_rule, module): rejects an *)
(* improper location / existing_rule pair, then moves the rule if it is    *)
(* not where it was asked to be.                                           *)

ImproperCombo(location, existing_rule) ==
    \/ location = None /\ existing_rule # None
    \/ location \in {"before", "after"} /\ existing_rule = None
    \/ location \in {"top", "bottom"} /\ existing_rule # None

PositionFails(obj, location, existing_rule, rem) ==
    \/ ImproperCombo(location, existing_rule)
    \/ /\ location # None
       /\ \/ ~HasRule(rem, obj.name)
          \/ location \in {"before", "after"} /\ ~HasRule(rem, existing_rule)

PositionChanged(obj, location, existing_rule, rem) ==
    CASE location = None     -> FALSE
      [] location = "top"    -> rem[1].name # obj.name
      [] location = "bottom" -> rem[Len(rem)].name # obj.name
      [] location = "before" -> IndexOf(rem, obj.name) + 1 # IndexOf(rem, existing_rule)
      [] location = "after"  -> IndexOf(rem, existing_rule) + 1 # IndexOf(rem, obj.name)

Moved(obj, location, existing_rule, rem) ==
    LET r == Find(rem, obj.name)
        w == Without(rem, obj.name)
    IN  CASE location = "top"    -> <<r>> \o w
          [] location = "bottom" -> Append(w, r)
          [] location = "before" -> InsertAt(w, IndexOf(w, existing_rule), r)
          [] location = "after"  -> InsertAt(w, IndexOf(w, existing_rule) + 1, r)

ApplyPositionRemote(check_mode, obj, location, existing_rule, rem) ==
    IF check_mode \/ ~PositionChanged(obj, location, existing_rule, rem) THEN rem
    ELSE Moved(obj, location, existing_rule, rem)

HelperErrorMsg == "helper error"

----------------------------------------------------------------------------
(* main *)

StepOrderCommitFirst ==
    <<"validate", "parent", "fetch", "build", "reconcile",
      "reposition", "commit", "annotate", "exit">>

StepOrder ==
    <<"validate", "parent", "fetch", "build", "reconcile",
      "reposition", "annotate", "commit", "exit">>

StepAfter(step) ==
    StepOrder[(CHOOSE i \in 1..Len(StepOrder) : StepOrder[i] = step) + 1]

DeviceGroupConflictInverted(p) == p.devicegroup # None /\ p.device_group = None

DeviceGroupConflict(p) == p.devicegroup # None /\ p.device_group # None

ConflictMsg ==
    "Both \"devicegroup\" and \"device_group\" are specified" \o ". "
        \o "Specify one or the other, not both."

FailedRefreshMsgNoText(e) == "Failed refresh"

FailedRefreshMsg(e) == "Failed refresh: " \o e

RuleSpecDefaultAction(p) == [name |-> p.rule_name, action |-> "allow"]

\* rule_spec: of the attributes copied one for one from the parameters the
\* model keeps the name and the action
RuleSpec(p) == [name |-> p.rule_name, action |-> p.action]

PositionGate(p) == p.state = "present"

FoldChangedOverwrite(c, moved) == moved

FoldChanged(c, moved) == c \/ moved

\* Python truthiness of audit_comment: None and "" are false
AuditGate(c, p) == c /\ p.audit_comment \notin {None, ""} /\ ~p.check_mode

CommitGateIgnoresChanged(c, p) == p.commit

CommitGate(c, p) == c /\ p.commit

ExitResultNoDiff(c, d) == [failed |-> FALSE, changed |-> c, diff |-> NoDiff, msg |-> "Done"]

ExitResult(c, d) == [failed |-> FALSE, changed |-> c, diff |-> d, msg |-> "Done"]

FailResult(m) == [failed |-> TRUE, changed |-> FALSE, diff |-> NoDiff, msg |-> m]

ParamSpace ==
    [state         : {"present", "absent"},
     check_mode    : BOOLEAN,
     devicegroup   : {None, "dg_old"},
     device_group  : {None, "dg"},
     rule_name     : {"r1"},
     action        : RuleActions,
     location      : {None, "top", "bottom", "before", "after"},
     existing_rule : {None, "r2"},
     commit        : BOOLEAN,
     audit_comment : {None, "", "reviewed"}]

Init ==
    /\ pc = StepOrder[1]
    /\ params \in ParamSpace
    /\ supplied = params
    /\ deprecated = FALSE
    /\ remote \in RuleBases
    /\ remote0 = remote
    /\ rules = <<>>
    /\ new_rule = NoRule
    /\ changed = FALSE
    /\ diff = NoDiff
    /\ stateChanged = FALSE
    /\ posChanged = FALSE
    /\ fetchErr = ""
    /\ calls = <<>>
    /\ result = NoResult

\* module.fail_json: report the failure and exit
FailJson(step, m) ==
    /\ pc' = "failed"
    /\ result' = FailResult(m)
    /\ calls' = Append(calls, step)

Advance(step) ==
    /\ pc' = StepAfter(step)
    /\ calls' = Append(calls, step)
    /\ result' = result

Validate ==
    /\ pc = "validate"
    /\ deprecated' = (params.devicegroup # None)
    /\ IF DeviceGroupConflict(params)
       THEN FailJson("validate", ConflictMsg) /\ params' = params
       ELSE /\ Advance("validate")
            /\ params' = IF params.devicegroup # None
                         THEN [params EXCEPT !.device_group = params.devicegroup]
                         ELSE params
    /\ UNCHANGED <<supplied, remote, remote0, rules, new_rule, changed, diff,
                   stateChanged, posChanged, fetchErr>>

GetParent ==
    /\ pc = "parent"
    /\ \E ok \in BOOLEAN :
         IF ok THEN Advance("parent") ELSE FailJson("parent", HelperErrorMsg)
    /\ UNCHANGED <<params, supplied, deprecated, remote, remote0, rules, new_rule, changed,
                   diff, stateChanged, posChanged, fetchErr>>

Fetch ==
    /\ pc = "fetch"
    /\ \/ /\ rules' = remote
          /\ fetchErr' = fetchErr
          /\ Advance("fetch")
       \/ \E e \in FetchErrors :
            /\ fetchErr' = e
            /\ rules' = rules
            /\ FailJson("fetch", FailedRefreshMsg(e))
    /\ UNCHANGED <<params, supplied, deprecated, remote, remote0, new_rule, changed, diff,
                   stateChanged, posChanged>>

Build ==
    /\ pc = "build"
    /\ new_rule' = RuleSpec(params)
    /\ Advance("build")
    /\ UNCHANGED <<params, supplied, deprecated, remote, remote0, rules, changed, diff,
                   stateChanged, posChanged, fetchErr>>

Reconcile ==
    /\ pc = "reconcile"
    /\ \E ok \in BOOLEAN :
         IF ok
         THEN /\ changed' = ApplyStateChanged(params.state, new_rule, rules)
              /\ stateChanged' = changed'
              /\ diff' = ApplyStateDiff(params.state, new_rule, rules)
              /\ remote' = ApplyStateRemote(params.state, params.check_mode,
                                            new_rule, rules, remote)
              /\ Advance("reconcile")
         ELSE /\ FailJson("reconcile", HelperErrorMsg)
              /\ UNCHANGED <<changed, stateChanged, diff, remote>>
    /\ UNCHANGED <<params, supplied, deprecated, remote0, rules, new_rule, posChanged, fetchErr>>

Reposition ==
    /\ pc = "reposition"
    /\ IF PositionGate(params)
       THEN \E ok \in BOOLEAN :
              IF ok /\ ~PositionFails(new_rule, params.location,
                                      params.existing_rule, remote)
              THEN /\ posChanged' = PositionChanged(new_rule, params.location,
                                                    params.existing_rule, remote)
                   /\ changed' = FoldChanged(changed, posChanged')
                   /\ remote' = ApplyPositionRemote(params.check_mode, new_rule,
                                    params.location, params.existing_rule, remote)
                   /\ Advance("reposition")
              ELSE /\ FailJson("reposition", HelperErrorMsg)
                   /\ UNCHANGED <<posChanged, changed, remote>>
       ELSE /\ pc' = StepAfter("reposition")
            /\ UNCHANGED <<posChanged, changed, remote, calls, result>>
    /\ UNCHANGED <<params, supplied, deprecated, remote0, rules, new_rule, diff,
                   stateChanged, fetchErr>>

Annotate ==
    /\ pc = "annotate"
    /\ IF AuditGate(changed, params)
       THEN \E ok \in BOOLEAN :
              IF ok THEN Advance("annotate") ELSE FailJson("annotate", HelperErrorMsg)
       ELSE /\ pc' = StepAfter("annotate")
            /\ UNCHANGED <<calls, result>>
    /\ UNCHANGED <<params, supplied, deprecated, remote, remote0, rules, new_rule, changed,
                   diff, stateChanged, posChanged, fetchErr>>

Commit ==
    /\ pc = "commit"
    /\ IF CommitGate(changed, params)
       THEN \E ok \in BOOLEAN :
              IF ok THEN Advance("commit") ELSE FailJson("commit", HelperErrorMsg)
       ELSE /\ pc' = StepAfter("commit")
            /\ UNCHANGED <<calls, result>>
    /\ UNCHANGED <<params, supplied, deprecated, remote, remote0, rules, new_rule, changed,
                   diff, stateChanged, posChanged, fetchErr>>

Exit ==
    /\ pc = "exit"
    /\ pc' = "done"
    /\ result' = ExitResult(changed, diff)
    /\ calls' = Append(calls, "exit")
    /\ UNCHANGED <<params, supplied, deprecated, remote, remote0, rules, new_rule, changed,
                   diff, stateChanged, posChanged, fetchErr>>

Next ==
    \/ Validate
    \/ GetParent
    \/ Fetch
    \/ Build
    \/ Reconcile
    \/ Reposition
    \/ Annotate
    \/ Commit
    \/ Exit

Spec == Init /\ [][Next]_vars

----------------------------------------------------------------------------
(* Properties *)

Invoked(step) == \E i \in 1..Len(calls) : calls[i] = step

Terminal == {"done", "failed"}

\* the steps that reach the device
RemoteSteps == {"parent", "fetch", "reconcile", "reposition", "annotate", "commit"}

\* the record the playbook asked for, as a rule
Desired == [name |-> supplied.rule_name, action |-> supplied.action]

\* C1: in check mode neither the audit-comment update nor the commit is
\* called during the invocation.
C1_CheckModeNoAuditNoCommit ==
    supplied.check_mode => ~Invoked("annotate") /\ ~Invoked("commit")

\* C2: location before/after without existing_rule always fails, and fails
\* before any remote call is attempted.
C2_LocationNeedsExistingRule ==
    (supplied.location \in {"before", "after"} /\ supplied.existing_rule = None)
        => /\ pc # "done"
           /\ \A step \in RemoteSteps : ~Invoked(step)

\* C3: with both devicegroup and device_group supplied the invocation fails
\* with the configuration error, whatever the other parameters are, and no
\* remote call is made.
C3_BothDeviceGroupsFail ==
    (supplied.devicegroup # None /\ supplied.device_group # None)
        => \/ pc = "validate" /\ calls = <<>>
           \/ /\ pc = "failed"
              /\ result.failed
              /\ result.msg = "Both \"devicegroup\" and \"device_group\" are specified. Specify one or the other, not both."
              /\ calls = <<"validate">>
              /\ remote = remote0

C3_Witness ==
    /\ supplied.devicegroup # None /\ supplied.device_group # None
    /\ supplied.state = "present" /\ supplied.commit /\ supplied.location = "top"
    /\ pc = "failed"

\* C4: when the fetch of the current rules raises a device error the
\* invocation fails with "Failed refresh: " followed by the error text, the
\* fetch ran once, no later step ran, and the rulebase is as it was.
C4_FetchErrorIsFatal ==
    fetchErr # ""
        => /\ pc = "failed"
           /\ result.failed
           /\ result.msg = "Failed refresh: " \o fetchErr
           /\ calls = <<"validate", "parent", "fetch">>
           /\ remote = remote0

C4_Witness == fetchErr = "timeout" /\ pc = "failed" /\ Len(remote0) > 0

\* the desired record is state=present and equal to a rule of the fetched set
IdenticalPresent ==
    /\ pc = "done"
    /\ supplied.state = "present"
    /\ \E i \in 1..Len(rules) : rules[i] = Desired

\* C5 as stated: a desired record identical to a fetched rule reports
\* changed=false whatever location and existing_rule are.
C5_IdenticalNeverChanged == IdenticalPresent => ~result.changed

\* C5 amended: a desired record identical to a fetched rule reports exactly
\* the change made by positioning, so changed=false when no location is
\* supplied.
C5_IdenticalChangedOnlyByMove ==
    IdenticalPresent
        => /\ result.changed = posChanged
           /\ supplied.location = None => ~result.changed

C5_Witness ==
    /\ IdenticalPresent
    /\ supplied.location = None
    /\ supplied.action = "deny"
    /\ ~result.changed

AbsentDone == pc = "done" /\ supplied.state = "absent"

RemovalDiff == result.diff.before.name = supplied.rule_name /\ result.diff.after = NoRule

\* C6 as stated: state=absent reports changed=true with a removal diff when
\* the named rule is in the fetched set and changed=false otherwise, and no
\* rule of that name remains after the run.
C6_AbsentRemoves ==
    AbsentDone
        => /\ result.changed = HasRule(rules, supplied.rule_name)
           /\ result.changed => RemovalDiff
           /\ ~HasRule(remote, supplied.rule_name)

\* C6 amended: as stated, except that the rule is gone after the run only
\* when the run is not in check mode; in check mode the rulebase is as it was.
C6_AbsentRemovesUnlessCheckMode ==
    AbsentDone
        => /\ result.changed = HasRule(rules, supplied.rule_name)
           /\ result.changed => RemovalDiff
           /\ ~supplied.check_mode => ~HasRule(remote, supplied.rule_name)
           /\ supplied.check_mode => remote = remote0

C6_Witness ==
    /\ AbsentDone
    /\ ~supplied.check_mode
    /\ result.changed
    /\ HasRule(remote0, supplied.rule_name)
    /\ ~HasRule(remote, supplied.rule_name)

\* C7: commit is called exactly when changed is true and commit was
\* requested, and with changed false neither the audit-comment update nor
\* the commit is called.
C7_ChangedGatesSideEffects ==
    /\ Invoked("commit") => changed /\ supplied.commit
    /\ (pc \in {"exit", "done"} /\ changed /\ supplied.commit) => Invoked("commit")
    /\ ~changed => ~Invoked("annotate") /\ ~Invoked("commit")

C7_Witness ==
    /\ pc = "done"
    /\ changed /\ supplied.commit /\ supplied.audit_comment = None
    /\ Invoked("commit")

\* C8: positioning is called only for state=present, and the changed flag
\* reported at exit is the OR of what reconcile and positioning reported.
C8_PositionOnlyPresentAndFolded ==
    /\ Invoked("reposition") => supplied.state = "present"
    /\ pc = "done" => result.changed = (stateChanged \/ posChanged)

C8_Witness ==
    /\ pc = "done"
    /\ Invoked("reposition")
    /\ stateChanged /\ ~posChanged
    /\ result.changed

CallRank(step) ==
    CASE step = "validate"   -> 1
      [] step = "parent"     -> 2
      [] step = "fetch"      -> 3
      [] step = "build"      -> 4
      [] step = "reconcile"  -> 5
      [] step = "reposition" -> 6
      [] step = "annotate"   -> 7
      [] step = "commit"     -> 8
      [] step = "exit"       -> 9

\* once the run has ended nothing more happens
StaysEnded == pc \in Terminal => (pc' = pc /\ calls' = calls /\ remote' = remote)

\* C9: the steps run in the order validate, fetch, build, reconcile,
\* reposition, audit-comment update, commit, each at most once; after the
\* first fatal error no step runs; a run that does not fail ends with the
\* success exit and the message Done.
C9_FixedPipeline ==
    /\ [](\A i, j \in 1..Len(calls) : i < j => CallRank(calls[i]) < CallRank(calls[j]))
    /\ [](pc = "failed" => result.failed)
    /\ [](pc = "done" => /\ ~result.failed
                         /\ result.msg = "Done"
                         /\ calls[Len(calls)] = "exit")
    /\ [][StaysEnded]_vars

C9_Witness ==
    /\ pc = "done"
    /\ calls = <<"validate", "parent", "fetch", "build", "reconcile",
                 "reposition", "annotate", "commit", "exit">>

\* C10: an audit-comment update is only issued for a rule that is in the
\* rulebase at that moment; a run that deletes the rule issues none for it.
C10_AuditOnlyForExistingRule ==
    Invoked("annotate") => HasRule(remote, supplied.rule_name)

====
